---- MODULE Spec2Model ----
(***************************************************************************)
(* A model of src/src/rope.rs: a B+-tree style index of byte/char metrics  *)
(* over the chunks of a gap buffer.  Rope::new, fill_leaves,               *)
(* fill_rope_layer, fill_vec, is_char_boundary, Node::metrics,             *)
(* Node::leaf_search and Node::insert are translated from the source.      *)
(* Offsets are 0-based as in the source; TLA+ sequences are 1-based, so    *)
(* the byte at offset i of a slice s is s[i + 1].  Rope::new is modelled   *)
(* for gap ranges with 0 <= gap_start <= gap_end <= len; outside them its  *)
(* slicing panics.                                                         *)
(***************************************************************************)
EXTENDS Integers, Sequences, FiniteSets, TLC

VARIABLES string, gap_start, gap_end, root, before, result, pc

vars == <<string, gap_start, gap_end, root, before, result, pc>>

----------------------------------------------------------------------------
(* Program constants (rope.rs:85-87).                                      *)

MAX == 2

NODE_SIZE == 5

(* Bounds of the model.                                                    *)

\* longest input buffer, in bytes
MaxLen == 7

\* largest component of an inserted Metrics delta
MaxDelta == 1

\* cap on the bytes a detached leaf may grow to (keeps the state space finite)
MaxBytes == 9

\* largest byte count of a chunk of an initial detached leaf
MaxChunk == 3

----------------------------------------------------------------------------
(* Metrics (rope.rs:55-83).                                                *)

MetricsNew(bytes, chars) == [bytes |-> bytes, chars |-> chars]

MetricsDefault == [bytes |-> 0, chars |-> 0]

MetricsAdd(a, b) == [bytes |-> a.bytes + b.bytes, chars |-> a.chars + b.chars]

RECURSIVE FoldFrom(_, _, _)
FoldFrom(seq, i, acc) ==
  IF i > Len(seq) THEN acc ELSE FoldFrom(seq, i + 1, MetricsAdd(acc, seq[i]))

\* iter().fold(Metrics::default(), |acc, x| acc + *x)
Fold(seq) == FoldFrom(seq, 1, MetricsDefault)

(* Nodes (rope.rs:18-53).  Both variants are records of the same shape;    *)
(* kind is the enum tag, the fields of the other variant are empty.        *)

LeafOf(data) ==
  [kind |-> "Leaf", data |-> data, metrics |-> <<>>, children |-> <<>>]

InternalOf(metrics, children) ==
  [kind |-> "Internal", data |-> <<>>, metrics |-> metrics, children |-> children]

\* Leaf::new
LeafNew(metric) == LeafOf(<<metric>>)

\* the tree before Rope::new has run
NoNode == [kind |-> "None", data |-> <<>>, metrics |-> <<>>, children |-> <<>>]

\* Node::metrics
NodeMetrics(node) ==
  IF node.kind = "Internal" THEN Fold(node.metrics) ELSE Fold(node.data)

----------------------------------------------------------------------------
(* Bulk construction (rope.rs:89-170).                                     *)

\* variant: the comparison without the cast to i8
is_char_boundary_unsigned(byte) == byte >= -64

\* (*byte as i8) >= -0x40
is_char_boundary(byte) ==
  LET asI8 == IF byte >= 128 THEN byte - 256 ELSE byte IN asI8 >= -64

\* bytecount::num_chars: the bytes that are not continuation bytes (10xxxxxx)
num_chars(bytes) ==
  Cardinality({i \in 1..Len(bytes) : (bytes[i] \div 64) # 2})

\* string.get(end).unwrap_or(&0)
GetOr0(s, i) == IF i < Len(s) THEN s[i + 1] ELSE 0

RECURSIVE AlignEnd(_, _)
\* while !is_char_boundary(..) { end += 1 }
AlignEnd(s, end) ==
  IF is_char_boundary(GetOr0(s, end)) THEN end ELSE AlignEnd(s, end + 1)

\* variant: every chunk gets a leaf of its own
PushChunkAlone(chunks, data) == Append(chunks, LeafNew(data))

\* the tail of fill_leaves' loop body: push into the last leaf or a new one
PushChunk(chunks, data) ==
  IF /\ chunks # <<>>
     /\ chunks[Len(chunks)].kind = "Leaf"
     /\ Len(chunks[Len(chunks)].data) < MAX
  THEN [chunks EXCEPT ![Len(chunks)].data = Append(@, data)]
  ELSE Append(chunks, LeafNew(data))

RECURSIVE FillLeavesFrom(_, _, _)
FillLeavesFrom(s, start, chunks) ==
  IF ~(start < Len(s)) THEN chunks
  ELSE LET end0 == IF start + NODE_SIZE > Len(s) THEN Len(s) ELSE start + NODE_SIZE
           end  == AlignEnd(s, end0)
           data == MetricsNew(end - start, num_chars(SubSeq(s, start + 1, end)))
       IN  FillLeavesFrom(s, end, PushChunk(chunks, data))

fill_leaves(s, chunks) == FillLeavesFrom(s, 0, chunks)

\* variant: the loop bound off by one (vec.len() <= MAX)
fill_vec_one_more(vec, iter) ==
  LET room == IF Len(vec) <= MAX THEN MAX + 1 - Len(vec) ELSE 0
      n    == IF room < Len(iter) THEN room ELSE Len(iter)
  IN  [vec |-> vec \o SubSeq(iter, 1, n), iter |-> SubSeq(iter, n + 1, Len(iter))]

\* moves elements from the front of iter into vec while vec.len() < MAX
fill_vec(vec, iter) ==
  LET room == IF Len(vec) < MAX THEN MAX - Len(vec) ELSE 0
      n    == IF room < Len(iter) THEN room ELSE Len(iter)
  IN  [vec |-> vec \o SubSeq(iter, 1, n), iter |-> SubSeq(iter, n + 1, Len(iter))]

\* variant: cached metrics as running prefix sums across siblings
RECURSIVE PrefixFrom(_, _, _, _)
PrefixFrom(children, i, acc, out) ==
  IF i > Len(children) THEN out
  ELSE LET a == MetricsAdd(acc, NodeMetrics(children[i]))
       IN  PrefixFrom(children, i + 1, a, Append(out, a))

ChildMetricsPrefix(children) == PrefixFrom(children, 1, MetricsDefault, <<>>)

\* children.iter().map(|x| x.metrics()).collect()
ChildMetrics(children) ==
  [i \in 1..Len(children) |-> NodeMetrics(children[i])]

RECURSIVE FillRopeLayerLoop(_, _)
FillRopeLayerLoop(to, iter) ==
  LET f == fill_vec(<<>>, iter) IN
  IF f.vec = <<>> THEN to
  ELSE FillRopeLayerLoop(Append(to, InternalOf(ChildMetrics(f.vec), f.vec)), f.iter)

\* variant: a lone trailing node is passed up unwrapped
RECURSIVE FillRopeLayerLoneLoop(_, _)
FillRopeLayerLoneLoop(to, iter) ==
  LET f == fill_vec(<<>>, iter) IN
  IF f.vec = <<>> THEN to
  ELSE IF Len(f.vec) = 1 THEN FillRopeLayerLoneLoop(Append(to, f.vec[1]), f.iter)
  ELSE FillRopeLayerLoneLoop(Append(to, InternalOf(ChildMetrics(f.vec), f.vec)), f.iter)

fill_rope_layer_lone(to, from) == FillRopeLayerLoneLoop(to, from)

\* the value of `to` afterwards; `from` is drained
fill_rope_layer(to, from) == FillRopeLayerLoop(to, from)

RECURSIVE BuildLayers(_, _)
\* the loop of Rope::new; after the swap `output` is the drained vec
BuildLayers(output, nodes) ==
  LET out == fill_rope_layer(output, nodes) IN
  IF Len(out) = 1 THEN out[1] ELSE BuildLayers(<<>>, out)

\* variant: the gap's bytes counted as characters too
Rope_new_gap_chars(s, gs, ge) ==
  LET pre  == fill_leaves(SubSeq(s, 1, gs), <<>>)
      gap  == MetricsNew(ge - gs, ge - gs)
      withGap == Append(pre, LeafNew(gap))
      nodes == fill_leaves(SubSeq(s, ge + 1, Len(s)), withGap)
  IN  BuildLayers(<<>>, nodes)

\* Rope::new(string, gap_start, gap_end).root, for 0 <= gs <= ge <= len
Rope_new(s, gs, ge) ==
  LET pre  == fill_leaves(SubSeq(s, 1, gs), <<>>)
      gap  == MetricsNew(ge - gs, 0)
      withGap == Append(pre, LeafNew(gap))
      nodes == fill_leaves(SubSeq(s, ge + 1, Len(s)), withGap)
  IN  BuildLayers(<<>>, nodes)

----------------------------------------------------------------------------
(* Search and insertion (rope.rs:172-227).  A call either returns ("ok")   *)
(* or panics; `why` names the panic site.                                  *)

Panicked(why, node) == [out |-> "panic", why |-> why, node |-> node]

Returned(node) == [out |-> "ok", why |-> "", node |-> node]

Least(S) == CHOOSE x \in S : \A y \in S : x <= y

RECURSIVE leaf_search(_, _)
\* Node::leaf_search; node in the result is the leaf returned
leaf_search(node, k) ==
  IF node.kind = "Leaf" THEN Returned(node)
  ELSE LET m == Len(node.children) IN
       IF m # Len(node.metrics) + 1 THEN Panicked("assert_eq", node)
       ELSE LET hits == {i \in 0..(m - 2) : k <= node.metrics[i + 1].bytes} IN
            IF hits # {} THEN leaf_search(node.children[Least(hits) + 1], k)
            ELSE Panicked("index out of bounds", node)  \* children[m]

RECURSIVE LeafScan(_, _, _, _)
\* the for loop of the Leaf arm, from chunk i (1-based) with remainder k
LeafScan(data, i, k, v) ==
  IF i > Len(data) THEN Panicked("index was out of bounds", data)
  ELSE IF k <= data[i].bytes
       THEN Returned([data EXCEPT ![i] = MetricsAdd(@, v)])
       ELSE LeafScan(data, i + 1, k - data[i].bytes, v)

RECURSIVE insert(_, _, _)
\* Node::insert; node in the result is self afterwards
insert(node, k, v) ==
  IF node.kind = "Leaf"
  THEN IF Len(node.data) < MAX
       THEN LET r == LeafScan(node.data, 1, k, v) IN
            [out |-> r.out, why |-> r.why, node |-> LeafOf(r.node)]
       ELSE Panicked("todo: split leaf", node)
  ELSE LET m == Len(node.children) IN
       IF m # Len(node.metrics) + 1 THEN Panicked("assert_eq", node)
       ELSE LET hits == {i \in 0..(m - 2) : k <= node.metrics[i + 1].bytes} IN
            IF hits # {}
            THEN LET i == Least(hits) + 1
                     r == insert(node.children[i], k, v)
                     n == [node EXCEPT !.children[i] = r.node]
                 IN  IF r.out = "panic" THEN Panicked(r.why, n)
                     ELSE Panicked("todo: update metrics", n)
            ELSE Panicked("index out of bounds", node)  \* children[m]

----------------------------------------------------------------------------
(* Inputs.                                                                 *)

\* the UTF-8 encodings of 'a', U+00E9 and U+20AC
Chars == {<<97>>, <<195, 169>>, <<226, 130, 172>>}

RECURSIVE WellFormed(_)
\* the well-formed UTF-8 byte strings over Chars of at most n bytes
WellFormed(n) ==
  IF n = 0 THEN {<<>>}
  ELSE LET shorter == WellFormed(n - 1) IN
       shorter \cup {s \o c : s \in shorter, c \in Chars}

abcdef == <<97, 98, 99, 100, 101, 102>>

hello_acute == <<104, 195, 169, 108, 108, 111>>

Strings == {s \in WellFormed(MaxLen) : Len(s) <= MaxLen} \cup {abcdef, hello_acute}

\* the deltas tried: a character takes at least one byte
Deltas ==
  {m \in {MetricsNew(b, c) : b \in 0..MaxDelta, c \in 0..MaxDelta} : m.chars <= m.bytes}

NoResult == [op |-> "none", k |-> 0, v |-> MetricsDefault,
             out |-> "", why |-> "", leaf |-> NoNode]

----------------------------------------------------------------------------
(* The state machine: a buffer and gap range are chosen, Rope::new builds  *)
(* the tree, then leaf_search and insert are called on the root, one call  *)
(* at a time (the structure is single-threaded).  A call is two steps: the *)
(* call itself, which runs to its return or panic, and the return of       *)
(* control to the caller, who may then call again.                         *)

Init ==
  /\ string \in Strings
  /\ gap_start \in 0..Len(string)
  /\ gap_end \in gap_start..Len(string)
  /\ root = NoNode
  /\ before = NoNode
  /\ result = NoResult
  /\ pc = "new"

New ==
  /\ pc = "new"
  /\ root' = Rope_new(string, gap_start, gap_end)
  /\ before' = NoNode
  /\ result' = [NoResult EXCEPT !.op = "new", !.out = "ok"]
  /\ pc' = "called"
  /\ UNCHANGED <<string, gap_start, gap_end>>

Search(k) ==
  /\ pc = "ready"
  /\ LET r == leaf_search(root, k) IN
     result' = [op |-> "search", k |-> k, v |-> MetricsDefault,
                out |-> r.out, why |-> r.why,
                leaf |-> IF r.out = "ok" THEN r.node ELSE NoNode]
  /\ before' = root
  /\ pc' = "called"
  /\ UNCHANGED <<string, gap_start, gap_end, root>>

Insert(k, v) ==
  /\ pc = "ready"
  /\ NodeMetrics(root).bytes + v.bytes <= MaxBytes
  /\ LET r == insert(root, k, v) IN
     /\ root' = r.node
     /\ result' = [op |-> "insert", k |-> k, v |-> v,
                   out |-> r.out, why |-> r.why, leaf |-> NoNode]
  /\ before' = root
  /\ pc' = "called"
  /\ UNCHANGED <<string, gap_start, gap_end>>

Return ==
  /\ pc = "called"
  /\ pc' = "ready"
  /\ before' = NoNode
  /\ result' = NoResult
  /\ UNCHANGED <<string, gap_start, gap_end, root>>

\* the offsets tried: the valid ones, 0..total_bytes, and total_bytes + 1
Offsets == 0..(NodeMetrics(root).bytes + 1)

Next ==
  \/ New
  \/ \E k \in Offsets : Search(k)
  \/ \E k \in Offsets, v \in Deltas : Insert(k, v)
  \/ Return

Spec == Init /\ [][Next]_vars

(* Node::insert called on a detached Leaf node holding 1..MAX chunks.      *)

ChunkMetrics ==
  {m \in {MetricsNew(b, c) : b \in 0..MaxChunk, c \in 0..MaxChunk} : m.chars <= m.bytes}

Leaves ==
  {LeafOf(<<m>>) : m \in ChunkMetrics}
    \cup {LeafOf(<<m, n>>) : m \in ChunkMetrics, n \in ChunkMetrics}

InitLeaf ==
  /\ string = <<>>
  /\ gap_start = 0
  /\ gap_end = 0
  /\ root \in Leaves
  /\ before = NoNode
  /\ result = NoResult
  /\ pc = "ready"

NextLeaf ==
  \/ \E k \in Offsets, v \in Deltas : Insert(k, v)
  \/ Return

SpecLeaf == InitLeaf /\ [][NextLeaf]_vars

----------------------------------------------------------------------------
(* Observers of a tree, used by the properties below.  They read the tree  *)
(* structurally and do not go through the cached metrics.                  *)

RECURSIVE LeavesOf(_)
\* the leaves beneath a node, left to right
LeavesOf(node) ==
  IF node.kind # "Internal" THEN <<node>>
  ELSE LET RECURSIVE Cat(_)
           Cat(i) == IF i > Len(node.children) THEN <<>>
                     ELSE LeavesOf(node.children[i]) \o Cat(i + 1)
       IN  Cat(1)

RECURSIVE ConcatData(_, _)
ConcatData(leaves, i) ==
  IF i > Len(leaves) THEN <<>> ELSE leaves[i].data \o ConcatData(leaves, i + 1)

\* the chunks beneath a node, left to right
ChunksOf(node) == ConcatData(LeavesOf(node), 1)

RECURSIVE SumBytes(_, _)
\* the bytes of the first i chunks
SumBytes(chunks, i) == IF i = 0 THEN 0 ELSE SumBytes(chunks, i - 1) + chunks[i].bytes

RECURSIVE SumChars(_, _)
SumChars(chunks, i) == IF i = 0 THEN 0 ELSE SumChars(chunks, i - 1) + chunks[i].chars

\* the exact component-wise sum of the chunks beneath a node
SubtreeSum(node) ==
  LET c == ChunksOf(node) IN MetricsNew(SumBytes(c, Len(c)), SumChars(c, Len(c)))

RECURSIVE InternalNodes(_)
\* the internal nodes of the tree rooted at node
InternalNodes(node) ==
  IF node.kind # "Internal" THEN {}
  ELSE {node} \cup UNION {InternalNodes(node.children[i]) : i \in 1..Len(node.children)}

RECURSIVE LeafDepths(_, _)
\* the depths at which leaves occur beneath a node that is at depth d
LeafDepths(node, d) ==
  IF node.kind # "Internal" THEN {d}
  ELSE UNION {LeafDepths(node.children[i], d + 1) : i \in 1..Len(node.children)}

\* Rope::new has run
Built == pc \in {"called", "ready"}

\* Rope::new has just returned: root is the tree it produced
JustBuilt == pc = "called" /\ result.op = "new"

\* a continuation byte (10xxxxxx) is at offset p of the buffer
IsContinuation(p) == p < Len(string) /\ string[p + 1] >= 128 /\ string[p + 1] < 192

\* offset p is a character boundary of the buffer
OnCharBoundary(p) == ~IsContinuation(p)

\* the characters that start in bytes lo .. hi-1 of the buffer
CharsIn(lo, hi) == Cardinality({p \in lo..(hi - 1) : ~IsContinuation(p)})

GapAligned == OnCharBoundary(gap_start) /\ OnCharBoundary(gap_end)

\* the chunk an offset k <= total resolves to: the first whose inclusive
\* upper edge covers k
ChunkAt(chunks, k) ==
  IF \E i \in 1..Len(chunks) : k <= SumBytes(chunks, i)
  THEN Least({i \in 1..Len(chunks) : k <= SumBytes(chunks, i)})
  ELSE Len(chunks)

\* the leaf (1-based, left to right) that holds chunk c
LeafOfChunk(leaves, c) ==
  Least({j \in 1..Len(leaves) : c <= Len(ConcatData(SubSeq(leaves, 1, j), 1))})

\* the position of the gap chunk in chunk order: it follows the pre-gap
\* chunks, which are non-empty and end at gap_start
GapChunkIndex(chunks) ==
  IF gap_start = 0 THEN 1
  ELSE 1 + Least({i \in 1..Len(chunks) : SumBytes(chunks, i) = gap_start})

----------------------------------------------------------------------------
(* Properties.                                                             *)

\* the chunks and leaves of the tree, left to right
TreeChunks == ChunksOf(root)

TreeLeaves == LeavesOf(root)

\* the leaf that holds the gap chunk
GapLeafIndex == LeafOfChunk(TreeLeaves, GapChunkIndex(TreeChunks))

GapLeaf == TreeLeaves[GapLeafIndex]

\* a valid call: its offset is within 0 .. total_bytes of the node called on
ValidCall(op) ==
  pc = "called" /\ result.op = op /\ result.k <= NodeMetrics(before).bytes

(* C1: for a well-formed buffer and a gap range on character boundaries,   *)
(* the root aggregate of the tree Rope::new returns is                     *)
(* {bytes: len(s), chars: chars(s[..gap_start]) + chars(s[gap_end..])};    *)
(* build("abcdef", 2, 4) totals {6, 4}, build("h\u00e9llo", 0, 0) {6, 5}.  *)
C1_BuildTotal ==
  /\ (JustBuilt /\ GapAligned) =>
       NodeMetrics(root) =
         MetricsNew(Len(string),
                    CharsIn(0, gap_start) + CharsIn(gap_end, Len(string)))
  /\ (JustBuilt /\ string = abcdef /\ gap_start = 2 /\ gap_end = 4) =>
       NodeMetrics(root) = MetricsNew(6, 4)
  /\ (JustBuilt /\ string = hello_acute /\ gap_start = 0 /\ gap_end = 0) =>
       NodeMetrics(root) = MetricsNew(6, 5)

C1_Witness ==
  /\ JustBuilt /\ string = abcdef /\ gap_start = 2 /\ gap_end = 4
  /\ NodeMetrics(root) = MetricsNew(6, 4)

(* C2: on a built tree, leaf_search(k) from the root, 0 <= k <= total      *)
(* bytes, returns the leaf whose chunk span contains k (inclusive upper    *)
(* edge; total_bytes resolves to the last chunk).                          *)
C2_SearchFindsChunk ==
  ValidCall("search") =>
    /\ result.out = "ok"
    /\ result.leaf =
         LeavesOf(before)[LeafOfChunk(LeavesOf(before),
                                      ChunkAt(ChunksOf(before), result.k))]

(* C3: on a built tree, insert(k, delta) on the root with 0 <= k <= total  *)
(* bytes completes and the root aggregate grows by exactly delta.          *)
C3_InsertAddsDelta ==
  ValidCall("insert") =>
    /\ result.out = "ok"
    /\ NodeMetrics(root) = MetricsAdd(NodeMetrics(before), result.v)

(* C4: leaf_search(total_bytes + 1) and insert(total_bytes + 1, delta) end *)
(* in a reported OutOfRange error, not a panic, and leave the tree as it   *)
(* was.                                                                    *)
C4_OutOfRangeReported ==
  (/\ pc = "called"
   /\ result.op \in {"search", "insert"}
   /\ result.k = NodeMetrics(before).bytes + 1) =>
    /\ result.out = "error"
    /\ result.why = "OutOfRange"
    /\ root = before

C6_UniformDepth == Built => Cardinality(LeafDepths(root, 0)) = 1

C6_Witness ==
  /\ pc = "called" /\ result.op = "insert"
  /\ Len(LeavesOf(root)) >= 3
  /\ LeafDepths(root, 0) = {2}

(* C7 as claimed: every non-root internal node has between t = 2 and       *)
(* 2t = 4 children, and the root is a leaf or has at least 2 children.     *)
C7_Original ==
  JustBuilt =>
    /\ \A n \in InternalNodes(root) \ {root} :
         Len(n.children) >= 2 /\ Len(n.children) <= 4
    /\ \/ root.kind = "Leaf"
       \/ root.kind = "Internal" /\ Len(root.children) >= 2

(* C7, amended: every internal node, the root included, has at least 1 and *)
(* at most MAX = 2 children, and the root is always an internal node.      *)
C7_ChildCount ==
  JustBuilt =>
    /\ root.kind = "Internal"
    /\ \A n \in InternalNodes(root) :
         Len(n.children) >= 1 /\ Len(n.children) <= MAX

C7_Witness ==
  /\ JustBuilt
  /\ \E n \in InternalNodes(root) \ {root} : Len(n.children) = 1
  /\ \E n \in InternalNodes(root) : Len(n.children) = MAX

\* the buffer offsets at which a chunk starts or ends
Boundaries == {SumBytes(TreeChunks, i) : i \in 0..Len(TreeChunks)}

\* the text chunks (all chunks but the gap chunk)
TextChunks == (1..Len(TreeChunks)) \ {GapChunkIndex(TreeChunks)}

\* the end of the scanned region text chunk i lies in
RegionEnd(i) == IF i < GapChunkIndex(TreeChunks) THEN gap_start ELSE Len(string)

\* where a chunk of a region ending at re that starts at start must end:
\* the first offset from start + NODE_SIZE on (or from re, if that is
\* nearer) that is re or holds no continuation byte
AlignedEnd(start, re) ==
  LET cand == IF start + NODE_SIZE > re THEN re ELSE start + NODE_SIZE
  IN  Least({e \in cand..re : e = re \/ ~IsContinuation(e)})

(* C8 as claimed: for any gap range within the buffer, every chunk         *)
(* boundary is at the end of a scanned region or at a byte that is not a   *)
(* continuation byte.                                                      *)
C8_Original ==
  JustBuilt =>
    \A p \in Boundaries : p \in {gap_start, Len(string)} \/ ~IsContinuation(p)

(* C8, amended: for a gap range on character boundaries no chunk boundary  *)
(* is at a continuation byte; and for any gap range every text chunk ends  *)
(* at the first offset at or after start + NODE_SIZE that is the end of    *)
(* its region or holds no continuation byte.                               *)
C8_ChunksAligned ==
  JustBuilt =>
    /\ GapAligned => \A p \in Boundaries : ~IsContinuation(p)
    /\ \A i \in TextChunks :
         SumBytes(TreeChunks, i) =
           AlignedEnd(SumBytes(TreeChunks, i - 1), RegionEnd(i))

C8_Witness ==
  /\ JustBuilt /\ GapAligned
  /\ \E i \in TextChunks :
       /\ TreeChunks[i].bytes > NODE_SIZE
       /\ IsContinuation(SumBytes(TreeChunks, i - 1) + NODE_SIZE)
       /\ SumBytes(TreeChunks, i) < Len(string)

(* C9: insert(k, delta) on a Leaf of 1 .. MAX chunks (a full leaf          *)
(* included), 0 <= k <= the leaf's bytes, adds delta to the first chunk    *)
(* whose inclusive upper edge covers the running remainder, leaves the     *)
(* other chunks and the chunk count as they were, and does not fail.       *)
C9_LeafInsertInPlace ==
  (/\ ValidCall("insert")
   /\ before.kind = "Leaf"
   /\ Len(before.data) >= 1 /\ Len(before.data) <= MAX) =>
    /\ result.out = "ok"
    /\ root = LeafOf([before.data EXCEPT
                        ![ChunkAt(before.data, result.k)] = MetricsAdd(@, result.v)])

====
